---- MODULE Spec2Model ----
(***************************************************************************)
(* A model of book_library.py: the Book record, the LibraryDatabase store  *)
(* (load, save, ISBN format validation, add, list, toggle) and the text    *)
(* file behind it.                                                         *)
(*                                                                         *)
(* Text is modelled as a sequence of one-character strings, so that        *)
(* strip, split, int() and str() are computed character by character.      *)
(* The backing file is the sequence of its lines (each without its line    *)
(* terminator); the characters of the model contain no line terminator.    *)
(***************************************************************************)
EXTENDS Integers, Sequences, FiniteSets, TLC

VARIABLES
    pc,             \* "new": no LibraryDatabase constructed yet; "ready": one is
    file,           \* the lines of the backing file
    exists,         \* whether the backing file exists
    books,          \* self.books
    validate_isbn,  \* self.validate_isbn
    load_warnings,  \* self.load_warnings
    toggles,        \* calls of toggle_validation since construction (observer)
    last            \* the last call: its name, its arguments and what it gave

vars == <<pc, file, exists, books, validate_isbn, load_warnings, toggles, last>>

store == <<file, exists, books, validate_isbn, load_warnings>>

(***************************************************************************)
(* Characters and the str methods the program uses.                        *)
(***************************************************************************)
Digits == {"0", "1", "2", "3", "4", "5", "6", "7", "8", "9"}

Whitespace == {" ", "\t"}

DigitVal(c) ==
    CASE c = "0" -> 0 [] c = "1" -> 1 [] c = "2" -> 2 [] c = "3" -> 3
      [] c = "4" -> 4 [] c = "5" -> 5 [] c = "6" -> 6 [] c = "7" -> 7
      [] c = "8" -> 8 [] c = "9" -> 9

DigitChar(d) ==
    CASE d = 0 -> "0" [] d = 1 -> "1" [] d = 2 -> "2" [] d = 3 -> "3"
      [] d = 4 -> "4" [] d = 5 -> "5" [] d = 6 -> "6" [] d = 7 -> "7"
      [] d = 8 -> "8" [] d = 9 -> "9"

\* str.isdigit(): non-empty and every character a digit
IsDigitStr(s) == Len(s) > 0 /\ \A i \in 1..Len(s) : s[i] \in Digits

\* str.upper() of one character (the letters of the model)
Upper(c) == CASE c = "x" -> "X" [] c = "a" -> "A" [] c = "b" -> "B"
              [] c = "c" -> "C" [] OTHER -> c

\* str.replace(ch, "")
RemoveChar(s, ch) == SelectSeq(s, LAMBDA c : c # ch)

RECURSIVE LStrip(_)
LStrip(s) == IF s # <<>> /\ Head(s) \in Whitespace THEN LStrip(Tail(s)) ELSE s

RECURSIVE RStrip(_)
RStrip(s) ==
    IF s # <<>> /\ s[Len(s)] \in Whitespace
    THEN RStrip(SubSeq(s, 1, Len(s) - 1)) ELSE s

\* str.strip()
Strip(s) == RStrip(LStrip(s))

\* str.split(sep): the pieces between the separators, n+1 of them for n separators
RECURSIVE Split(_, _)
Split(s, sep) ==
    LET hits == {i \in 1..Len(s) : s[i] = sep}
    IN  IF hits = {} THEN <<s>>
        ELSE LET k == CHOOSE i \in hits : \A j \in hits : i <= j
             IN  <<SubSeq(s, 1, k - 1)>> \o Split(SubSeq(s, k + 1, Len(s)), sep)

\* str.startswith(p)
StartsWith(s, p) == Len(s) >= Len(p) /\ SubSeq(s, 1, Len(p)) = p

(***************************************************************************)
(* int(text) and str(number).                                              *)
(***************************************************************************)
\* the digits part of an int() literal: digits, with single underscores between them
IsIntBody(s) ==
    /\ Len(s) > 0
    /\ \A i \in 1..Len(s) : s[i] \in Digits \cup {"_"}
    /\ s[1] # "_" /\ s[Len(s)] # "_"
    /\ \A i \in 1..(Len(s) - 1) : ~(s[i] = "_" /\ s[i + 1] = "_")

Unsigned(s) == IF s # <<>> /\ Head(s) \in {"+", "-"} THEN Tail(s) ELSE s

\* int(s) does not raise ValueError
IntParses(s) == IsIntBody(Unsigned(Strip(s)))

RECURSIVE DigitsValue(_)
DigitsValue(s) ==
    IF s = <<>> THEN 0
    ELSE DigitsValue(SubSeq(s, 1, Len(s) - 1)) * 10 + DigitVal(s[Len(s)])

\* int(s), for a string that parses
IntValue(s) ==
    LET t == Strip(s)
        v == DigitsValue(RemoveChar(Unsigned(t), "_"))
    IN  IF Head(t) = "-" THEN 0 - v ELSE v

RECURSIVE NatToStr(_)
NatToStr(n) ==
    IF n < 10 THEN <<DigitChar(n)>>
    ELSE NatToStr(n \div 10) \o <<DigitChar(n % 10)>>

\* str(n) of an int
IntToStr(n) == IF n < 0 THEN <<"-">> \o NatToStr(0 - n) ELSE NatToStr(n)

(***************************************************************************)
(* Book                                                                    *)
(***************************************************************************)
\* Book.__init__ with the year already converted by int()
Book(title, author, isbn, year) ==
    [title |-> title, author |-> author, isbn |-> isbn, year |-> year]

\* to_file_format with the author written before the title
to_file_format_AuthorFirst(book) ==
    book.author \o <<"/">> \o book.title \o <<"/">> \o book.isbn
        \o <<"/">> \o IntToStr(book.year)

to_file_format(book) ==
    book.title \o <<"/">> \o book.author \o <<"/">> \o book.isbn
        \o <<"/">> \o IntToStr(book.year)

(***************************************************************************)
(* sorted(books, key=lambda b: b.year): a stable sort                      *)
(***************************************************************************)
\* a sort that is not stable: a book goes before the books of its own year
RECURSIVE InsertByYear_Unstable(_, _)
InsertByYear_Unstable(sorted, b) ==
    IF sorted = <<>> THEN <<b>>
    ELSE IF sorted[Len(sorted)].year < b.year THEN Append(sorted, b)
    ELSE Append(InsertByYear_Unstable(SubSeq(sorted, 1, Len(sorted) - 1), b),
                sorted[Len(sorted)])

RECURSIVE InsertByYear(_, _)
InsertByYear(sorted, b) ==
    IF sorted = <<>> THEN <<b>>
    ELSE IF sorted[Len(sorted)].year <= b.year THEN Append(sorted, b)
    ELSE Append(InsertByYear(SubSeq(sorted, 1, Len(sorted) - 1), b),
                sorted[Len(sorted)])

\* the books as they are, not sorted
SortedByYear_Unsorted(bs) == bs

RECURSIVE SortedByYear(_)
SortedByYear(bs) ==
    IF bs = <<>> THEN <<>>
    ELSE InsertByYear(SortedByYear(SubSeq(bs, 1, Len(bs) - 1)), bs[Len(bs)])

(***************************************************************************)
(* LibraryDatabase._save_to_file: the file's new content                   *)
(***************************************************************************)
save_to_file(bs) ==
    LET sorted_books == SortedByYear(bs)
    IN  [i \in 1..Len(sorted_books) |-> to_file_format(sorted_books[i])]

(***************************************************************************)
(* LibraryDatabase._load_from_file                                         *)
(***************************************************************************)
FormatReason == "Invalid format (expected 4 fields)"

\* str(e) of int()'s ValueError, without the quoted literal
IntReason == "invalid literal for int() with base 10"

\* the loop's body with the lines numbered from 0 (enumerate without start=1)
ParseLine_FromZero(line_num, line) ==
    LET text == Strip(line)
        parts == Split(text, "/")
    IN  IF text = <<>> THEN [kind |-> "blank"]
        ELSE IF Len(parts) = 4
        THEN IF IntParses(parts[4])
             THEN [kind |-> "book",
                   book |-> Book(parts[1], parts[2], parts[3], IntValue(parts[4]))]
             ELSE [kind |-> "invalid", entry |-> <<line_num - 1, text, IntReason>>]
        ELSE [kind |-> "invalid", entry |-> <<line_num - 1, text, FormatReason>>]

\* the loop's body with the 2nd and 3rd parts given to Book in the wrong order
ParseLine_IsbnAsAuthor(line_num, line) ==
    LET text == Strip(line)
        parts == Split(text, "/")
    IN  IF text = <<>> THEN [kind |-> "blank"]
        ELSE IF Len(parts) = 4
        THEN IF IntParses(parts[4])
             THEN [kind |-> "book",
                   book |-> Book(parts[1], parts[3], parts[2], IntValue(parts[4]))]
             ELSE [kind |-> "invalid", entry |-> <<line_num, text, IntReason>>]
        ELSE [kind |-> "invalid", entry |-> <<line_num, text, FormatReason>>]

\* the body of the loop for one line
ParseLine(line_num, line) ==
    LET text == Strip(line)
        parts == Split(text, "/")
    IN  IF text = <<>> THEN [kind |-> "blank"]
        ELSE IF Len(parts) = 4
        THEN IF IntParses(parts[4])
             THEN [kind |-> "book",
                   book |-> Book(parts[1], parts[2], parts[3], IntValue(parts[4]))]
             ELSE [kind |-> "invalid", entry |-> <<line_num, text, IntReason>>]
        ELSE [kind |-> "invalid", entry |-> <<line_num, text, FormatReason>>]

RECURSIVE LoadedBooks(_, _)
LoadedBooks(f, n) ==
    IF n = 0 THEN <<>>
    ELSE LET r == ParseLine(n, f[n])
         IN  IF r.kind = "book" THEN Append(LoadedBooks(f, n - 1), r.book)
             ELSE LoadedBooks(f, n - 1)

RECURSIVE InvalidEntries(_, _)
InvalidEntries(f, n) ==
    IF n = 0 THEN <<>>
    ELSE LET r == ParseLine(n, f[n])
         IN  IF r.kind = "invalid" THEN Append(InvalidEntries(f, n - 1), r.entry)
             ELSE InvalidEntries(f, n - 1)

\* what construction over file f leaves: the books, the warnings and the file
load_from_file(f, ex) ==
    IF ~ex
    THEN [books |-> <<>>, load_warnings |-> <<>>, file |-> f, exists |-> FALSE]
    ELSE LET bs == LoadedBooks(f, Len(f))
         IN  [books |-> bs,
              load_warnings |-> InvalidEntries(f, Len(f)),
              file |-> IF bs # <<>> THEN save_to_file(bs) ELSE f,
              exists |-> TRUE]

(***************************************************************************)
(* LibraryDatabase._validate_isbn_format                                   *)
(***************************************************************************)
\* the check with a last character "x" of an ISBN-10 not accepted
validate_isbn_format_UpperOnly(isbn) ==
    LET isbn_clean == RemoveChar(RemoveChar(isbn, "-"), " ")
        n == Len(isbn_clean)
    IN  IF /\ n = 10
           /\ IsDigitStr(SubSeq(isbn_clean, 1, n - 1))
           /\ (isbn_clean[n] \in Digits \/ isbn_clean[n] = "X")
        THEN <<TRUE, "ISBN-10">>
        ELSE IF /\ n = 13
                /\ IsDigitStr(isbn_clean)
                /\ (\/ StartsWith(isbn_clean, <<"9", "7", "8">>)
                    \/ StartsWith(isbn_clean, <<"9", "7", "9">>))
        THEN <<TRUE, "ISBN-13">>
        ELSE <<FALSE, "none">>

validate_isbn_format(isbn) ==
    LET isbn_clean == RemoveChar(RemoveChar(isbn, "-"), " ")
        n == Len(isbn_clean)
    IN  IF /\ n = 10
           /\ IsDigitStr(SubSeq(isbn_clean, 1, n - 1))
           /\ (isbn_clean[n] \in Digits \/ Upper(isbn_clean[n]) = "X")
        THEN <<TRUE, "ISBN-10">>
        ELSE IF /\ n = 13
                /\ IsDigitStr(isbn_clean)
                /\ (\/ StartsWith(isbn_clean, <<"9", "7", "8">>)
                    \/ StartsWith(isbn_clean, <<"9", "7", "9">>))
        THEN <<TRUE, "ISBN-13">>
        ELSE <<FALSE, "none">>

(***************************************************************************)
(* Bounds and inputs of the store specification                            *)
(***************************************************************************)
MaxLines == 2       \* lines of the file the first store is built over

MaxBooks == 2       \* add is called while the store holds fewer books

MaxToggles == 2     \* calls of toggle_validation per store

\* a valid ISBN-10 and an invalid ISBN
Isbn10 == <<"0", "3", "0", "6", "4", "0", "6", "1", "5", "2">>

\* lines a file may hold: two valid ones (the second with a year that is not
\* in str() form), three fields (indented), a year that is no number, a blank
FileLines ==
    { <<"a", "/", "b", "/", "1", "/", "7">>,
      <<"c", "/", "b", "/", "1", "/", "0", "3">>,
      <<" ", "a", "/", "b", "/", "1">>,
      <<"a", "/", "b", "/", "1", "/", "x">>,
      <<" ">> }

Files == UNION {[1..n -> FileLines] : n \in 0..MaxLines}

\* arguments of add: a valid call, and the calls that differ from it in one
\* argument
BaseArgs == [title |-> <<"a">>, author |-> <<"b">>, isbn |-> Isbn10, year |-> <<"7">>]

AddInputs ==
    {BaseArgs}
    \cup {[BaseArgs EXCEPT !.title = t] : t \in {<<>>, <<"a", "/">>, <<" ", "a">>}}
    \cup {[BaseArgs EXCEPT !.author = t] : t \in {<<>>}}
    \cup {[BaseArgs EXCEPT !.isbn = t] : t \in {<<>>, <<"1">>}}
    \cup {[BaseArgs EXCEPT !.year = t] : t \in {<<>>, <<"x">>, <<"0", "3">>}}

(***************************************************************************)
(* The store: construction, add, toggle_validation                         *)
(***************************************************************************)
NoCall == [op |-> "none"]

InitStore ==
    /\ pc = "new"
    /\ exists \in BOOLEAN
    /\ file \in (IF exists THEN Files ELSE {<<>>})
    /\ books = <<>>
    /\ validate_isbn = FALSE
    /\ load_warnings = <<>>
    /\ toggles = 0
    /\ last = NoCall

\* LibraryDatabase(filename): a store is constructed over the file as it is
\* (the first one, or the next run of the program)
LibraryDatabase ==
    LET r == load_from_file(file, exists)
    IN  /\ pc' = "ready"
        /\ books' = r.books
        /\ validate_isbn' = FALSE
        /\ load_warnings' = r.load_warnings
        /\ file' = r.file
        /\ exists' = r.exists
        /\ toggles' = 0
        /\ last' = [op |-> "load", file |-> file, exists |-> exists]

Required == "Error: All fields are required"

BadYear == "Error: Year must be a valid number"

BadIsbn == "Error: Invalid ISBN format (must be ISBN-10 or ISBN-13)"

Added == "Book added successfully"

\* add's checks without the one of the author
AddError_AuthorNotRequired(title, author, isbn, year) ==
    IF title = <<>> \/ isbn = <<>> \/ year = <<>> THEN Required
    ELSE IF ~IntParses(year) THEN BadYear
    ELSE IF validate_isbn /\ ~validate_isbn_format(isbn)[1] THEN BadIsbn
    ELSE ""

\* what add prints, or "" for a call that goes on to add the book
AddError(title, author, isbn, year) ==
    IF title = <<>> \/ author = <<>> \/ isbn = <<>> \/ year = <<>> THEN Required
    ELSE IF ~IntParses(year) THEN BadYear
    ELSE IF validate_isbn /\ ~validate_isbn_format(isbn)[1] THEN BadIsbn
    ELSE ""

add(title, author, isbn, year) ==
    LET err == AddError(title, author, isbn, year)
        args == [title |-> title, author |-> author, isbn |-> isbn, year |-> year]
    IN  /\ pc = "ready"
        /\ Len(books) < MaxBooks
        /\ IF err # ""
           THEN /\ last' = [op |-> "add", args |-> args, out |-> err]
                /\ UNCHANGED <<pc, file, exists, books, validate_isbn,
                               load_warnings, toggles>>
           ELSE LET new_book == Book(title, author, isbn, IntValue(year))
                IN  /\ books' = Append(books, new_book)
                    /\ file' = save_to_file(books')
                    /\ exists' = TRUE
                    /\ last' = [op |-> "add", args |-> args, out |-> Added]
                    /\ UNCHANGED <<pc, validate_isbn, load_warnings, toggles>>

\* a toggle that only ever enables the flag
toggle_validation_OnlyOn ==
    /\ pc = "ready"
    /\ toggles < MaxToggles
    /\ validate_isbn' = TRUE
    /\ toggles' = toggles + 1
    /\ last' = [op |-> "toggle", status |-> validate_isbn']
    /\ UNCHANGED <<pc, file, exists, books, load_warnings>>

toggle_validation ==
    /\ pc = "ready"
    /\ toggles < MaxToggles
    /\ validate_isbn' = ~validate_isbn
    /\ toggles' = toggles + 1
    /\ last' = [op |-> "toggle", status |-> validate_isbn']
    /\ UNCHANGED <<pc, file, exists, books, load_warnings>>

(***************************************************************************)
(* LibraryDatabase.list                                                    *)
(***************************************************************************)
DefaultPageSize == 10

\* s[:n]
Prefix(s, n) == SubSeq(s, 1, IF Len(s) > n THEN n ELSE Len(s))

\* the page count as total_books // page_size + 1: one page too many when the
\* last page is full
TotalPages_PlusOne(total_books, page_size) == total_books \div page_size + 1

\* total_pages = (total_books + page_size - 1) // page_size
TotalPages(total_books, page_size) == (total_books + page_size - 1) \div page_size

\* page = max(1, min(page, total_pages))
ClampPage(page, total_pages) ==
    LET m == IF page < total_pages THEN page ELSE total_pages
    IN  IF m > 1 THEN m ELSE 1

\* what list prints and returns
ListResult(page, page_size) ==
    IF books = <<>>
    THEN [op |-> "list", page |-> page, page_size |-> page_size,
          total_books |-> 0, shown_page |-> 0, total_pages |-> 0,
          rows |-> <<>>, ret |-> FALSE]
    ELSE LET sorted_books == SortedByYear(books)
             total_books == Len(sorted_books)
             total_pages == TotalPages(total_books, page_size)
             pg == ClampPage(page, total_pages)
             start_idx == (pg - 1) * page_size
             end_idx == IF start_idx + page_size < total_books
                        THEN start_idx + page_size ELSE total_books
             page_books == SubSeq(sorted_books, start_idx + 1, end_idx)
         IN  [op |-> "list", page |-> page, page_size |-> page_size,
              total_books |-> total_books, shown_page |-> pg,
              total_pages |-> total_pages,
              rows |-> [k \in 1..Len(page_books) |->
                          <<IntToStr(start_idx + k),
                            Prefix(page_books[k].title, 40),
                            Prefix(page_books[k].author, 30),
                            Prefix(page_books[k].isbn, 20),
                            IntToStr(page_books[k].year)>>],
              ret |-> total_pages > 1]

list(page, page_size) ==
    /\ pc = "ready"
    /\ last' = ListResult(page, page_size)
    /\ UNCHANGED <<pc, file, exists, books, validate_isbn, load_warnings, toggles>>

(***************************************************************************)
(* The menu loop                                                           *)
(***************************************************************************)
AddCall == \E a \in AddInputs : add(a.title, a.author, a.isbn, a.year)

\* the menu's listing: pages of the default size, from page 1 on
MenuListCall == \E page \in 1..MaxBooks : list(page, DefaultPageSize)

Next ==
    \/ LibraryDatabase
    \/ AddCall
    \/ MenuListCall
    \/ toggle_validation

Spec == InitStore /\ [][Next]_vars

(***************************************************************************)
(* Properties of the store                                                 *)
(***************************************************************************)
CountChar(s, ch) == Cardinality({i \in 1..Len(s) : s[i] = ch})

\* the text after the last "/" of s (all of s when it has none)
LastField(s) ==
    LET hits == {i \in 1..Len(s) : s[i] = "/"}
    IN  IF hits = {} THEN s
        ELSE SubSeq(s, (CHOOSE i \in hits : \A j \in hits : j <= i) + 1, Len(s))

\* the text before the last "/" of s
BeforeLastField(s) == SubSeq(s, 1, Len(s) - Len(LastField(s)) - 1)

\* a sequence as a bag: each element with the number of times it occurs
SeqBag(s) ==
    [x \in {s[i] : i \in DOMAIN s} |-> Cardinality({i \in DOMAIN s : s[i] = x})]

\* the years at the ends of the file's lines ascend
FileYearsAscending ==
    \A i \in 1..(Len(file) - 1) :
        IntValue(LastField(file[i])) <= IntValue(LastField(file[i + 1]))

\* the last call was an add that the contract of add accepts: all fields
\* non-empty, the year an integer, the ISBN check passed or disabled
SuccessfulAdd ==
    /\ last.op = "add"
    /\ last.args.title # <<>> /\ last.args.author # <<>>
    /\ last.args.isbn # <<>> /\ last.args.year # <<>>
    /\ IntParses(last.args.year)
    /\ (validate_isbn => validate_isbn_format(last.args.isbn)[1])

\* a fresh LibraryDatabase on the same file holds the records of this one,
\* and the file is in ascending year order
RoundTrip ==
    /\ SeqBag(load_from_file(file, exists).books) = SeqBag(books)
    /\ FileYearsAscending

\* a record no field of which has a "/" and whose title does not start with
\* whitespace
PlainBook(b) ==
    /\ CountChar(b.title, "/") = 0
    /\ CountChar(b.author, "/") = 0
    /\ CountChar(b.isbn, "/") = 0
    /\ (b.title = <<>> \/ b.title[1] \notin Whitespace)

\* C1 as stated: after a successful add, a fresh store on the same file holds
\* the same records with the same multiplicities, and the file is in
\* ascending year order.
C1_RoundTripAfterAnyAdd == SuccessfulAdd => RoundTrip

\* C1, amended: after a successful add, provided no record in memory has a
\* "/" in a field or whitespace at the start of its title, a fresh store on
\* the same file holds the same records with the same multiplicities, and the
\* file is in ascending year order.
C1_RoundTripOfPlainBooks ==
    (SuccessfulAdd /\ \A i \in DOMAIN books : PlainBook(books[i])) => RoundTrip

\* C1's case: a successful add of a plain record whose year is below that of a
\* record already held
C1_Witness ==
    /\ SuccessfulAdd
    /\ \A i \in DOMAIN books : PlainBook(books[i])
    /\ Len(books) >= 2
    /\ books[Len(books)].year < books[1].year

\* the call with arguments a is one add must reject when the flag is `flag`
RejectedCall(a, flag) ==
    \/ a.title = <<>> \/ a.author = <<>> \/ a.isbn = <<>> \/ a.year = <<>>
    \/ ~IntParses(a.year)
    \/ (flag /\ ~validate_isbn_format(a.isbn)[1])

\* C2: an add with an empty field, a year that is no integer, or (flag
\* enabled) an ISBN of invalid format leaves the records, the file and its
\* existence, the flag and the load warnings as they were.
C2_RejectedAddMutatesNothing ==
    [][(last'.op = "add" /\ RejectedCall(last'.args, validate_isbn))
          => UNCHANGED store]_vars

\* C2's case: an add rejected for its ISBN, by a store that holds a record
\* and a warning
C2_Witness ==
    /\ last.op = "add"
    /\ last.out = BadIsbn
    /\ books # <<>>
    /\ load_warnings # <<>>

\* the line of a record: title/author/isbn/year
LineOf(b) ==
    LET sep == <<"/">>
    IN  b.title \o sep \o b.author \o sep \o b.isbn \o sep \o IntToStr(b.year)

\* the last call ran save: a load that parsed a record, or a successful add
JustSaved == (last.op = "load" /\ books # <<>>) \/ SuccessfulAdd

\* C3: right after a save the file holds exactly one line per record in
\* memory, in title/author/isbn/year format, in ascending order of year with
\* equal years in insertion order, and nothing else.
C3_SaveContract ==
    JustSaved =>
        /\ exists
        /\ Len(file) = Len(books)
        /\ \E p \in [1..Len(books) -> 1..Len(books)] :
              /\ \A i, j \in 1..Len(books) : i # j => p[i] # p[j]
              /\ \A i \in 1..Len(books) : file[i] = LineOf(books[p[i]])
              /\ \A i, j \in 1..Len(books) :
                    i < j => \/ books[p[i]].year < books[p[j]].year
                             \/ /\ books[p[i]].year = books[p[j]].year
                                /\ p[i] < p[j]

\* C3's case: a save of two different records of the same year
C3_Witness ==
    /\ JustSaved
    /\ \E i, j \in DOMAIN books :
          i < j /\ books[i].year = books[j].year /\ books[i] # books[j]

\* C4 as stated: the in-memory sequence is sorted ascending by year after
\* load and after any adds.
C4_MemorySorted ==
    pc = "ready" => \A i \in 1..(Len(books) - 1) : books[i].year <= books[i + 1].year

\* C4, amended: after load over a file with at least one valid line, and
\* after any adds that follow, it is the backing file that is sorted
\* ascending by year (the in-memory sequence keeps the order of the file's
\* lines, then of the adds).
C4_FileSorted == (pc = "ready" /\ books # <<>>) => FileYearsAscending

\* C4's case: a load of a file whose lines were not in year order
C4_Witness ==
    /\ last.op = "load"
    /\ Len(books) >= 2
    /\ books[1].year > books[2].year

\* C5: once construction has finished, no line recorded in load_warnings is
\* still in the backing file.
C5_InvalidLinesRemoved ==
    last.op = "load" =>
        \A k \in DOMAIN load_warnings : \A i \in DOMAIN file :
            Strip(file[i]) # load_warnings[k][2]

\* a line that splits on "/" into exactly 4 parts, the 4th an integer
ValidLine(line) ==
    /\ CountChar(Strip(line), "/") = 3
    /\ IntParses(LastField(Strip(line)))

\* C6: load partitions the non-blank lines of the file: each valid line gives
\* exactly one record, every other one exactly one warning with its 1-based
\* line number and its text, a wrong field count with the reason "Invalid
\* format (expected 4 fields)"; a missing file gives no record and no warning.
C6_LoadPartitions ==
    last.op = "load" =>
        IF ~last.exists THEN books = <<>> /\ load_warnings = <<>>
        ELSE LET f == last.file
                 nonblank == {i \in DOMAIN f : Strip(f[i]) # <<>>}
                 valid == {i \in nonblank : ValidLine(f[i])}
                 invalid == nonblank \ valid
             IN  /\ Len(books) = Cardinality(valid)
                 /\ Len(load_warnings) = Cardinality(invalid)
                 /\ \A i \in valid :
                      LET b == books[Cardinality({j \in valid : j <= i})]
                          sep == <<"/">>
                      IN  /\ b.title \o sep \o b.author \o sep \o b.isbn
                                = BeforeLastField(Strip(f[i]))
                          /\ b.year = IntValue(LastField(f[i]))
                 /\ \A i \in invalid :
                      LET w == load_warnings[Cardinality({j \in invalid : j <= i})]
                      IN  /\ w[1] = i
                          /\ w[2] = Strip(f[i])
                          /\ (CountChar(f[i], "/") # 3
                                => w[3] = "Invalid format (expected 4 fields)")

\* C6's case: a file of one valid line and then a line of three fields
C6_Witness ==
    /\ last.op = "load"
    /\ Len(books) = 1
    /\ Len(load_warnings) = 1
    /\ load_warnings[1][1] = 2
    /\ load_warnings[1][3] = FormatReason

\* the last call's arguments are valid but for the ISBN, which is not empty
\* and of invalid format
OnlyIsbnInvalid(a) ==
    /\ a.title # <<>> /\ a.author # <<>> /\ a.isbn # <<>> /\ a.year # <<>>
    /\ IntParses(a.year)
    /\ ~validate_isbn_format(a.isbn)[1]

\* C8: the flag is off at construction and flipped by each toggle, which
\* changes neither the records nor the file; an add that is valid but for the
\* format of its ISBN is rejected iff toggle_validation was called an odd
\* number of times since construction, and is accepted and persisted
\* otherwise.
C8_IsbnEnforcementFollowsFlag ==
    [][/\ last'.op = "load" => (~validate_isbn' /\ toggles' = 0)
       /\ last'.op = "toggle" =>
             /\ validate_isbn' = ~validate_isbn
             /\ toggles' = toggles + 1
             /\ UNCHANGED <<books, file, exists>>
       /\ validate_isbn' = (toggles' % 2 = 1)
       /\ (last'.op = "add" /\ OnlyIsbnInvalid(last'.args)) =>
             IF toggles % 2 = 1 THEN UNCHANGED store
             ELSE /\ books' = Append(books, [title |-> last'.args.title,
                                             author |-> last'.args.author,
                                             isbn |-> last'.args.isbn,
                                             year |-> IntValue(last'.args.year)])
                  /\ exists'
                  /\ \E i \in DOMAIN file' : file'[i] = LineOf(books'[Len(books')])
      ]_vars

\* C8's case: an add with an ISBN of invalid format, rejected after one toggle
C8_Witness ==
    /\ last.op = "add"
    /\ OnlyIsbnInvalid(last.args)
    /\ toggles = 1
    /\ books # <<>>

(***************************************************************************)
(* _validate_isbn_format on its own: a store over no file, and calls of    *)
(* the method with ISBN texts of every length up to 15                     *)
(***************************************************************************)
MaxFill == 10       \* the run of digits in the middle of an ISBN text

Rep(c, n) == [i \in 1..n |-> c]

Isbn13Example ==
    <<"9", "7", "8", "-", "3", "-", "1", "6", "-", "1", "4", "8", "4", "1", "0",
      "-", "0">>

Isbn10Example == <<"0", "-", "3", "0", "6", "-", "4", "0", "6", "1", "5", "-", "2">>

IsbnShortExample == <<"1", "2", "3", "4", "5">>

IsbnPrefixes ==
    { <<>>, <<"9", "7", "8">>, <<"9", "7", "9">>, <<"9", "7", "7">>,
      <<"9", "7", "-", "8">>, <<"9", " ", "7", "9">>, <<"9", "7", "a">>,
      <<"\t", "9", "7", "8">> }

IsbnEndings == {<<"0">>, <<"X">>, <<"x">>, <<"a">>, <<"5", "-">>, <<" ", "X">>}

IsbnInputs ==
    {Isbn13Example, Isbn10Example, IsbnShortExample}
    \cup {p \o Rep("1", n) \o e :
            p \in IsbnPrefixes, n \in 0..MaxFill, e \in IsbnEndings}

InitIsbn ==
    /\ pc = "ready"
    /\ exists = FALSE
    /\ file = <<>>
    /\ books = <<>>
    /\ validate_isbn = FALSE
    /\ load_warnings = <<>>
    /\ toggles = 0
    /\ last = NoCall

ValidateCall ==
    \E isbn \in IsbnInputs :
        /\ pc = "ready"
        /\ last' = [op |-> "validate", isbn |-> isbn,
                    ret |-> validate_isbn_format(isbn)]
        /\ UNCHANGED <<pc, file, exists, books, validate_isbn, load_warnings,
                       toggles>>

SpecIsbn == InitIsbn /\ [][ValidateCall]_vars

\* C9: with hyphens and spaces removed, the result is (true, ISBN-10) iff 10
\* characters remain, the first 9 digits and the 10th a digit, "X" or "x";
\* (true, ISBN-13) iff 13 digits remain that start with 978 or 979; and
\* (false, none) otherwise. "978-3-16-148410-0" is ISBN-13, "0-306-40615-2"
\* ISBN-10 and "12345" invalid.
C9_IsbnFormatReference ==
    last.op = "validate" =>
        LET c == SelectSeq(last.isbn, LAMBDA ch : ch \notin {"-", " "})
            is10 == /\ Len(c) = 10
                    /\ \A i \in 1..9 : c[i] \in Digits
                    /\ c[10] \in Digits \cup {"X", "x"}
            is13 == /\ Len(c) = 13
                    /\ \A i \in 1..13 : c[i] \in Digits
                    /\ <<c[1], c[2], c[3]>> \in {<<"9", "7", "8">>, <<"9", "7", "9">>}
        IN  /\ (last.ret = <<TRUE, "ISBN-10">>) <=> is10
            /\ (last.ret = <<TRUE, "ISBN-13">>) <=> is13
            /\ (last.ret = <<FALSE, "none">>) <=> (~is10 /\ ~is13)
            /\ last.isbn = Isbn13Example => last.ret = <<TRUE, "ISBN-13">>
            /\ last.isbn = Isbn10Example => last.ret = <<TRUE, "ISBN-10">>
            /\ last.isbn = IsbnShortExample => last.ret = <<FALSE, "none">>

\* C9's case: an ISBN-13 that starts with 979 and is written with a space
C9_Witness ==
    /\ last.op = "validate"
    /\ last.ret = <<TRUE, "ISBN-13">>
    /\ StartsWith(last.isbn, <<"9", " ", "7", "9">>)

(***************************************************************************)
(* list on its own: stores of up to MaxListBooks books, any page and size  *)
(***************************************************************************)
MaxListBooks == 25      \* books of the store that list is called on

MaxPage == 4            \* pages asked for: -1 .. MaxPage, and 99

MaxPageSize == 3        \* page sizes: 1 .. MaxPageSize, and the default

\* the store after n adds to no file: the k-th book has title str(k) and a
\* year that rises, falls or cycles with k
ListYear(shape, n, k) ==
    CASE shape = "rising" -> 2000 + k
      [] shape = "falling" -> 2000 + n - k
      [] shape = "cycling" -> 2000 + ((k * 3) % 5)

ListBooks(shape, n) ==
    [k \in 1..n |-> Book(IntToStr(k), <<"b">>, <<"1">>, ListYear(shape, n, k))]

InitList ==
    /\ pc = "ready"
    /\ \E n \in 0..MaxListBooks, shape \in {"rising", "falling", "cycling"} :
          books = ListBooks(shape, n)
    /\ exists = (books # <<>>)
    /\ file = save_to_file(books)
    /\ validate_isbn = FALSE
    /\ load_warnings = <<>>
    /\ toggles = 0
    /\ last = NoCall

ListPages == ((0 - 1)..MaxPage) \cup {99}

ListPageSizes == (1..MaxPageSize) \cup {DefaultPageSize}

ListCall == \E page \in ListPages, page_size \in ListPageSizes : list(page, page_size)

SpecList == InitList /\ [][ListCall]_vars

\* C7: for a non-empty store, list uses totalPages = ceil(count / pageSize),
\* clamps the page into [1, totalPages], shows exactly the records at
\* positions (page-1)*pageSize+1 .. min(page*pageSize, count) of the
\* year-sorted sequence, never an empty page, and returns true iff
\* totalPages > 1; with no records it returns false. 25 records and page size
\* 10 give 3 pages, and pages 0 and 99 clamp to 1 and 3.
C7_ListPagination ==
    last.op = "list" =>
        IF books = <<>> THEN last.ret = FALSE
        ELSE LET count == Len(books)
                 size == last.page_size
                 total == CHOOSE t \in 1..count :
                              t * size >= count /\ (t - 1) * size < count
                 pg == IF last.page < 1 THEN 1
                       ELSE IF last.page > total THEN total ELSE last.page
                 from == (pg - 1) * size + 1
                 to == IF pg * size < count THEN pg * size ELSE count
                 sorted == SortedByYear(books)
             IN  /\ last.total_pages = total
                 /\ last.shown_page = pg
                 /\ last.total_books = count
                 /\ Len(last.rows) = to - from + 1
                 /\ Len(last.rows) >= 1
                 /\ \A k \in 1..Len(last.rows) :
                       last.rows[k] = <<IntToStr(from + k - 1),
                                        sorted[from + k - 1].title,
                                        sorted[from + k - 1].author,
                                        sorted[from + k - 1].isbn,
                                        IntToStr(sorted[from + k - 1].year)>>
                 /\ last.ret = (total > 1)
                 /\ (count = 25 /\ size = 10) =>
                       /\ last.total_pages = 3
                       /\ last.page = 0 => last.shown_page = 1
                       /\ last.page = 99 => last.shown_page = 3

\* C7's case: page 99 of 25 records in pages of 10, shown as page 3 with the
\* last 5 records
C7_Witness ==
    /\ last.op = "list"
    /\ Len(books) = 25
    /\ last.page_size = 10
    /\ last.page = 99
    /\ last.shown_page = 3
    /\ Len(last.rows) = 5

(***************************************************************************)
(* Parsing and serialization of one line: a store is constructed over a    *)
(* file of one line, which load parses and save writes back                *)
(***************************************************************************)
MaxYear == 12       \* the lines' years in str() form: -MaxYear .. MaxYear

YearTexts ==
    {IntToStr(n) : n \in (0 - MaxYear)..MaxYear}
    \cup { <<"0", "3">>, <<"+", "5">>, <<" ", "4">>, <<"4", " ">>, <<"-", "0">>,
           <<"1", "_", "0">>, <<"x">>, <<"-">>, <<>> }

LineTitles == {<<"a">>, <<>>, <<" ", "a">>, <<"a", " ", "c">>}

LineIsbns == {<<"1">>, <<"1", "-", "X">>}

ParseInputs ==
    {t \o <<"/">> \o <<"b">> \o <<"/">> \o i \o <<"/">> \o y :
        t \in LineTitles, i \in LineIsbns, y \in YearTexts}
    \cup {<<"a", "/", "b", "/", "7">>, <<"a", "/", "b", "/", "1", "/", "7", "/", "7">>}

InitLine ==
    /\ pc = "new"
    /\ exists = TRUE
    /\ file \in {<<line>> : line \in ParseInputs}
    /\ books = <<>>
    /\ validate_isbn = FALSE
    /\ load_warnings = <<>>
    /\ toggles = 0
    /\ last = NoCall

SpecLine == InitLine /\ [][LibraryDatabase]_vars

\* the text of a year as str() writes it: "0", or an optional "-" and digits
\* that do not start with "0"
StrFormYear(y) ==
    LET d == IF y # <<>> /\ y[1] = "-" THEN Tail(y) ELSE y
    IN  /\ d # <<>>
        /\ \A i \in 1..Len(d) : d[i] \in Digits
        /\ (d[1] = "0" => y = <<"0">>)

\* the file held the one line `line`, which load parsed and wrote back as it was
ParsedAndWrittenBack(line) == Len(books) = 1 /\ file = <<line>>

\* C10 as stated: a line of four "/"-separated fields whose 4th field parses
\* as an integer is parsed, and serializing the record gives the line back.
C10_RoundTripOfAnyValidLine ==
    (/\ last.op = "load" /\ last.exists /\ Len(last.file) = 1
     /\ CountChar(last.file[1], "/") = 3
     /\ IntParses(LastField(last.file[1])))
        => ParsedAndWrittenBack(last.file[1])

\* C10, amended: a line of four "/"-separated fields that does not start with
\* whitespace and whose 4th field is an integer in the form str() writes it
\* ("0", or an optional "-" and digits without a leading zero) is parsed, and
\* serializing the record gives the line back.
C10_RoundTripOfStrFormLine ==
    (/\ last.op = "load" /\ last.exists /\ Len(last.file) = 1
     /\ CountChar(last.file[1], "/") = 3
     /\ last.file[1][1] \notin Whitespace
     /\ StrFormYear(LastField(last.file[1])))
        => ParsedAndWrittenBack(last.file[1])

\* C10's case: a line with an empty title, a space inside a field and a
\* negative year of two digits, parsed and written back
C10_Witness ==
    /\ last.op = "load" /\ last.exists /\ Len(last.file) = 1
    /\ CountChar(last.file[1], "/") = 3
    /\ last.file[1][1] = "/"
    /\ StrFormYear(LastField(last.file[1]))
    /\ Len(books) = 1
    /\ books[1].year < 0 - 9
    /\ books[1].title = <<>>

====
